---- MODULE Spec2Model ----
(***************************************************************************)
(* Model of the vm-mad Orchestrator (src/vmmad/orchestrator.py): the       *)
(* reconciliation loop `run`, the thread-pool workers `_do_start_vm` and   *)
(* `_do_stop_vm`, the job bookkeeping `update_job_status` and the          *)
(* `vm_is_ready` callback, which the web thread runs concurrently with     *)
(* the loop and the workers.                                               *)
(*                                                                         *)
(* Threads interleave between the steps named below.  Python's `assert`    *)
(* statements are enabled (the default interpreter mode): a failed         *)
(* assertion raises AssertionError.  An exception that leaves a step of    *)
(* the loop ends run().                                                    *)
(*                                                                         *)
(* Seven specifications share the actions and differ in the environment:   *)
(* Spec (one web thread, two VMs, a batch system with one queued job),     *)
(* SpecJobs (one VM, every list of jobs, a longer run), SpecSilent (no     *)
(* ready callback, a longer run), SpecRace (two web threads, one VM),      *)
(* SpecBurst (one web thread, three VMs, another queued job every cycle),  *)
(* SpecCycles (run() called with every max_cycles, no callback) and        *)
(* SpecLate (one VM, one job id, the longest run).                         *)
(* SpecObjects applies the constructors of VmInfo and JobInfo to every     *)
(* combination of keyword arguments; SpecReplay calls get_sched_info of    *)
(* the replay batch system on every small trace; SpecSimul and             *)
(* SpecSimulFair run the simulator of simul.py on every small trace.       *)
(***************************************************************************)
EXTENDS Integers, FiniteSets, Sequences, Bags, TLC

\* ---------------------------------------------------------------- bounds
MaxVmId == 2            \* number of VmInfo objects new_vm may create
MaxTime == 2            \* the virtual clock stops the loop at this time
LongTime == 3           \* the same, in the specifications of longer runs
LateTime == 4           \* the same, in the specification of the longest run
OneVm == 1              \* number of VmInfo objects in the specifications of one VM
ManyVms == 3            \* the same, in the specification of more than max_delta VMs
NumAuths == 2           \* size of the set random_password draws from
NumHosts == 1           \* host names a ready callback may carry
MaxCycles == 2          \* largest max_cycles run() is called with
MaxJobs == 2            \* job ids the batch system may report
NumCallers == 2         \* web threads that may run vm_is_ready at once

\* ------------------------- arguments of the constructor and of run()
max_vms == 1
max_delta == 2
vm_start_timeout == 0
delay == 1

VmIds == 1..MaxVmId
Auths == 1..NumAuths
Hosts == 1..NumHosts
JobIds == 1..MaxJobs
Callers == 1..NumCallers

\* ------------------------------------------------------------ VmInfo, JobInfo
STARTING == "STARTING"
READY == "READY"
STOPPING == "STOPPING"
DRAINING == "DRAINING"
DOWN == "DOWN"
VM_OTHER == "OTHER"   \* VmInfo.OTHER (OTHER is a TLA+ keyword)

PENDING == "PENDING"
RUNNING == "RUNNING"
FINISHED == "FINISHED"
JOB_OTHER == "JOB_OTHER"   \* JobInfo.OTHER

\* an attribute that is not set on a Struct
NoHost == 0
NoTime == -1
NoAuth == 0
NoVm == 0

\* ------------------------------------------------------------ dict helpers
Put(d, k, v) == [x \in (DOMAIN d) \cup {k} |-> IF x = k THEN v ELSE d[x]]

Del(d, ks) == [x \in (DOMAIN d) \ ks |-> d[x]]

EmptyDict == [x \in {} |-> 0]

VARIABLES
    now,                \* Orchestrator.time()
    pc,                 \* position of the loop thread inside run()
    cycle,              \* Orchestrator.cycle
    last_cycle_at,      \* local `last_cycle_at` of run()
    done,               \* local `done` of run()
    delta_i,            \* iterations done by the `for _ in xrange(max_delta)` loop
    vmid,               \* Orchestrator._vmid
    vm,                 \* the VmInfo objects, by vmid
    vms,                \* keys of Orchestrator.vms
    pending_auth,       \* Orchestrator._pending_auth : auth -> vmid
    vms_by_nodename,    \* Orchestrator._vms_by_nodename : nodename -> vmid
    jobs,               \* Orchestrator.jobs : jobid -> JobInfo
    candidates,         \* Orchestrator.candidates (jobids)
    last_update,        \* Orchestrator.last_update
    current_jobids,     \* jobids of the list get_sched_info returned last (line 505)
    tasks,              \* calls handed to the thread pool and not yet run
    call,               \* vm_is_ready invocations of the web threads
    response,           \* what the /x/ready request that ended in the last step answered,
                        \* "none" when the last step was another one
    ret,                \* what the vm_is_ready call that ended in the last step returned or
                        \* raised, "none" when the last step was another one
    max_cycles,         \* argument `max_cycles` of run()
    obj,                \* a JobInfo or VmInfo constructor call and what came of it
    sim,                \* the OrchestratorSimulation of simul.py
    selected            \* history: the VMs the stop loop (lines 348-355) has chosen so far

vars == <<now, pc, cycle, last_cycle_at, done, delta_i, vmid, vm, vms, pending_auth, vms_by_nodename,
          jobs, candidates, last_update, current_jobids, tasks, call, response, ret,
          max_cycles, obj, sim, selected>>

IdleCall == [pc |-> "idle", auth |-> NoAuth, nodename |-> NoHost, vm |-> NoVm]

\* what is not an Orchestrator and is not used beside one
NoObject == [cls |-> "none"]
NoSimulation == [pc |-> "none"]

\* Orchestrator.__init__ (lines 249-291) and the locals of run() (305-306)
Constructed ==
    /\ now = 1
    /\ pc = "update"
    /\ cycle = 0
    /\ last_cycle_at = 1
    /\ done = 0
    /\ delta_i = 0
    /\ vmid = 0
    /\ vm = EmptyDict
    /\ vms = {}
    /\ pending_auth = EmptyDict
    /\ vms_by_nodename = EmptyDict
    /\ jobs = EmptyDict
    /\ candidates = {}
    /\ last_update = 0
    /\ current_jobids = {}
    /\ tasks = EmptyBag
    /\ call = [c \in Callers |-> IdleCall]
    /\ response = "none"
    /\ ret = "none"
    /\ selected = {}

\* run(delay) of an Orchestrator: max_cycles defaults to 0
Init ==
    /\ Constructed
    /\ max_cycles = 0
    /\ obj = NoObject
    /\ sim = NoSimulation

SetState(vmtab, ids, s) == [v \in DOMAIN vmtab |-> IF v \in ids THEN [vmtab[v] EXCEPT !.state = s] ELSE vmtab[v]]

\* The VmInfo objects that are still referenced: from self.vms, the two index
\* dicts, a call waiting in the pool or a vm_is_ready in progress.  An object
\* nothing refers to is freed.
Referenced(tbl, pa, bn, q, cl) ==
    tbl \cup {pa[a] : a \in DOMAIN pa} \cup {bn[n] : n \in DOMAIN bn}
        \cup {t[2] : t \in BagToSet(q)} \cup {cl[c].vm : c \in DOMAIN cl}

Heap(vmtab, tbl, pa, bn, q, cl) ==
    [v \in (DOMAIN vmtab) \cap Referenced(tbl, pa, bn, q, cl) |-> vmtab[v]]

Dispatch(q, op, ids) == q (+) SetToBag({<<op, v>> : v \in ids})

\* OrchestratorWebApp.ready (webapp.py:72-100, webapp/__init__.py:82-96) once
\* vm_is_ready has ended with `r`: "OK" with status 200 whatever the call
\* returned; an exception of the call leaves the handler.
ready(r) ==
    IF r = "none" THEN "none"
    ELSE IF r \in {"True", "False"} THEN "200 OK"
    ELSE "exception"

\* ------------------------------------------------- update_job_status
\* Time stamps a job record may carry at time n when the last update was at lu:
\* older than, equal to, or later than lu.
TimeStamps(lu, n) == {t \in 0..n : t >= lu - 1}

\* The JobInfo records a batch system may return from get_sched_info for the
\* job ids `ids`: a queued job, a running job (with or without an exec node), a
\* job in another state.
JobRecords(ids, lu, n) ==
    [jobid : ids, state : {PENDING}, exec_node_name : {NoHost},
     running_at : {NoTime}, submitted_at : TimeStamps(lu, n)]
    \cup
    [jobid : ids, state : {RUNNING}, exec_node_name : Hosts \cup {NoHost},
     running_at : TimeStamps(lu, n), submitted_at : {NoTime}]
    \cup
    [jobid : ids, state : {FINISHED, JOB_OTHER}, exec_node_name : {NoHost},
     running_at : {NoTime}, submitted_at : {NoTime}]

\* the records of a batch system that only ever has queued jobs
QueuedRecords(ids, lu, n) == {r \in JobRecords(ids, lu, n) : r.state = PENDING}

\* the records of a batch system whose time stamps are never older than the
\* last update
TimelyRecords(ids, lu, n) ==
    {r \in JobRecords(ids, lu, n) :
        /\ r.submitted_at # NoTime => r.submitted_at >= lu
        /\ r.running_at # NoTime => r.running_at >= lu}

\* get_sched_info returns a list
Snapshots(records, len) ==
    UNION {[1..k -> records] : k \in 0..len}

JobIdsOf(snap) == {snap[i].jobid : i \in 1..Len(snap)}

RecOf(snap, j) == snap[CHOOSE i \in 1..Len(snap) : snap[i].jobid = j]

\* A table that files every job as PENDING whatever the batch system reported
StoredAsPending(job) == [state |-> PENDING, exec_node_name |-> job.exec_node_name]

\* What the model keeps of a JobInfo stored in self.jobs: the time stamps of a
\* stored record are never read again, because a record whose jobid is already
\* in self.jobs makes the next update raise before anything else is read.
Stored(job) == [state |-> job.state, exec_node_name |-> job.exec_node_name]

\* `for job in current_jobs` (lines 474-501).  A jobid already in self.jobs
\* reaches `self.jobs[jobid].update(job)`: Struct derives from
\* collections.Mapping, which has no `update`, so the call raises
\* AttributeError.  A new record is stored first and its time stamp asserted
\* afterwards.
RECURSIVE Upsert(_, _, _, _)
Upsert(tbl, snap, i, lu) ==
    IF i > Len(snap) THEN [jobs |-> tbl, ok |-> TRUE]
    ELSE LET job == snap[i]
             t2 == Put(tbl, job.jobid, Stored(job))
         IN  IF job.jobid \in DOMAIN tbl THEN [jobs |-> tbl, ok |-> FALSE]
             ELSE IF job.running_at # NoTime
                  THEN IF job.running_at >= lu THEN Upsert(t2, snap, i + 1, lu)
                       ELSE [jobs |-> t2, ok |-> FALSE]
             ELSE IF job.submitted_at # NoTime
                  THEN IF job.submitted_at >= lu THEN Upsert(t2, snap, i + 1, lu)
                       ELSE [jobs |-> t2, ok |-> FALSE]
             ELSE Upsert(t2, snap, i + 1, lu)

\* the assertions of the `for jobid in terminated` loop (lines 509-516)
TerminatedAssertFails(job) ==
    \/ job.state = RUNNING /\ job.exec_node_name = NoHost
    \/ job.state = PENDING /\ job.exec_node_name \in Hosts

\* a record on which the `for job in self.jobs.values()` loop raises:
\* a missing attribute (lines 531, 532, 540) or the assertion of line 543
RunningLoopRaises(job, cands, accept, lu) ==
    \/ job.state = RUNNING /\ job.running_at = NoTime
    \/ job.state = RUNNING /\ job.running_at > lu /\ job.exec_node_name = NoHost
    \/ job.state = PENDING /\ job.submitted_at = NoTime
    \/ job.state = PENDING /\ job.submitted_at > lu /\ job.jobid \in accept
          /\ job.jobid \in cands

JustRunning(job, lu) == job.state = RUNNING /\ job.running_at > lu

\* A test of line 540 that forgets the state of the job
JustSubmittedAnyState(job, lu) == job.submitted_at > lu \/ job.running_at > lu

JustSubmitted(job, lu) == job.state = PENDING /\ job.submitted_at > lu

ActiveVms(vmtab, tbl) == {v \in tbl : vmtab[v].state \in {READY, DRAINING}}

\* the jobs is_cloud_candidate may be asked about (line 541)
Submitted(snap) == {j \in JobIdsOf(snap) : JustSubmitted(RecOf(snap, j), last_update)}

\* `terminated` of line 506, once the records of `snap` are stored
Terminated(tbl, snap) == (DOMAIN Upsert(tbl, snap, 1, last_update).jobs) \ JobIdsOf(snap)

\* A loop over a set or a dict that raises has handled some of the other
\* elements before (the iteration order is arbitrary): the choices of the
\* elements handled by the `terminated` loop and by the running/pending loop.
HandledChoices(tbl, snap) ==
    LET U == Upsert(tbl, snap, 1, last_update)
        terminated == Terminated(tbl, snap)
        badT == {j \in terminated : TerminatedAssertFails(U.jobs[j])}
    IN  IF ~U.ok THEN {{}}
        ELSE IF badT # {} THEN SUBSET (terminated \ badT)
        ELSE SUBSET JobIdsOf(snap)

\* The whole of update_job_status on the list `snap`.  `accept` holds the answers
\* of is_cloud_candidate and `handled` the elements a loop that raises has
\* handled before.  The result is the new jobs, candidates, VmInfo objects and
\* last_update, and whether the call returned (ok) or raised.
update_job_status(snap, accept, handled) ==
    LET lu == last_update
        U == Upsert(jobs, snap, 1, lu)
        terminated == Terminated(jobs, snap)
        badT == {j \in terminated : TerminatedAssertFails(U.jobs[j])}
        goneT == IF badT = {} THEN terminated ELSE handled
        jobs1 == Del(U.jobs, goneT)
        cand1 == candidates \ goneT
        vm1 == [v \in DOMAIN vm |->
                  IF v \in ActiveVms(vm, vms)
                  THEN [vm[v] EXCEPT !.jobs = @ \ terminated] ELSE vm[v]]
        cur == DOMAIN jobs1
        badR == {j \in cur : RunningLoopRaises(RecOf(snap, j), cand1, accept, lu)}
        seen == IF badR = {} THEN cur ELSE handled \ badR
        run == {j \in seen : JustRunning(RecOf(snap, j), lu)}
        sub == {j \in seen : JustSubmitted(RecOf(snap, j), lu) /\ j \in accept}
        cand2 == (cand1 \ run) \cup sub
        vm2 == [v \in DOMAIN vm |->
                  [vm1[v] EXCEPT !.jobs = @ \cup
                      {j \in run : /\ RecOf(snap, j).exec_node_name \in DOMAIN vms_by_nodename
                                   /\ vms_by_nodename[RecOf(snap, j).exec_node_name] = v}]]
    IN  IF ~U.ok
        THEN [jobs |-> U.jobs, candidates |-> candidates, vm |-> vm,
              last_update |-> lu, ok |-> FALSE]
        ELSE IF badT # {}
        THEN [jobs |-> jobs1, candidates |-> cand1, vm |-> vm,
              last_update |-> lu, ok |-> FALSE]
        ELSE IF badR # {}
        THEN [jobs |-> jobs1, candidates |-> cand2, vm |-> vm2,
              last_update |-> lu, ok |-> FALSE]
        ELSE [jobs |-> jobs1, candidates |-> cand2, vm |-> vm2,
              last_update |-> now, ok |-> TRUE]

\* ------------------------------------------------------------- run(): one cycle
\* An exception that leaves a step of the loop leaves run() (no handler).

\* Start of a cycle (lines 308-315): before() is a no-op hook; then
\* update_job_status on one of the lists `snaps`, or get_sched_info raises.
UpdateJobStatus(snaps) ==
    /\ pc = "update"
    /\ \/ /\ pc' = "crashed"
          /\ UNCHANGED <<jobs, candidates, vm, last_update, current_jobids>>
       \/ \E snap \in snaps :
            \E accept \in SUBSET Submitted(snap), handled \in HandledChoices(jobs, snap) :
               LET r == update_job_status(snap, accept, handled)
               IN  /\ jobs' = r.jobs
                   /\ candidates' = r.candidates
                   /\ vm' = r.vm
                   /\ last_update' = r.last_update
                   /\ current_jobids' = JobIdsOf(snap)
                   /\ pc' = IF r.ok THEN "refresh" ELSE "crashed"
    /\ UNCHANGED <<now, cycle, last_cycle_at, done, delta_i, vmid, vms, pending_auth, vms_by_nodename,
                   tasks, call>>
    /\ ret' = "none"
    /\ response' = "none"
    /\ UNCHANGED <<max_cycles, obj, sim, selected>>

\* A provider whose update_vm_status stores READY for a node it sees running
UpdateVmStatusRunningIsReady ==
    /\ pc = "refresh"
    /\ \E seen \in [vms -> {"same", DOWN, VM_OTHER, READY}], raises \in BOOLEAN :
        /\ vm' = [v \in DOMAIN vm |->
                    IF v \in vms /\ seen[v] # "same"
                    THEN [vm[v] EXCEPT !.state = seen[v]] ELSE vm[v]]
        /\ pc' = IF raises THEN "crashed" ELSE "gc"
    /\ UNCHANGED <<now, cycle, last_cycle_at, done, delta_i, vmid, vms, pending_auth, vms_by_nodename,
                   jobs, candidates, last_update, current_jobids, tasks, call>>
    /\ ret' = "none"
    /\ response' = "none"
    /\ UNCHANGED <<max_cycles, obj, sim, selected>>

\* cloud.update_vm_status(self.vms.values()) (line 317).  The provider sets the
\* state of any VM it was given to DOWN or OTHER or leaves it alone
\* (gc3pie.py:91-103); it may raise after having updated some VMs
\* (gc3pie.py:94, and libcloud.py:54-60 where VmInfo.UP does not exist).
UpdateVmStatus ==
    /\ pc = "refresh"
    /\ \E seen \in [vms -> {"same", DOWN, VM_OTHER}], raises \in BOOLEAN :
        /\ vm' = [v \in DOMAIN vm |->
                    IF v \in vms /\ seen[v] # "same"
                    THEN [vm[v] EXCEPT !.state = seen[v]] ELSE vm[v]]
        /\ pc' = IF raises THEN "crashed" ELSE "gc"
    /\ UNCHANGED <<now, cycle, last_cycle_at, done, delta_i, vmid, vms, pending_auth, vms_by_nodename,
                   jobs, candidates, last_update, current_jobids, tasks, call>>
    /\ ret' = "none"
    /\ response' = "none"
    /\ UNCHANGED <<max_cycles, obj, sim, selected>>

TimedOut(v) == vm[v].state = STARTING /\ (now - vm[v].started_at) > vm_start_timeout

\* The bookkeeping of lines 327-333 with last_idle left alone when the VM
\* has jobs
AccountNoReset(vmtab, ids, elapsed) ==
    [v \in DOMAIN vmtab |->
        IF v \in ids
        THEN [vmtab[v] EXCEPT
                !.running_time = IF vmtab[v].state \in {READY, STOPPING, VM_OTHER}
                                 THEN @ + elapsed ELSE @,
                !.total_idle = IF vmtab[v].jobs = {} THEN @ + elapsed ELSE @,
                !.last_idle = IF vmtab[v].jobs = {} THEN @ + elapsed ELSE @]
        ELSE vmtab[v]]

\* Lines 327-333, for the VMs `ids` the loop did not delete: running_time
\* grows by `elapsed` in the states READY, STOPPING and OTHER; a VM without
\* jobs adds `elapsed` to total_idle and last_idle, a VM with jobs resets
\* last_idle.
Account(vmtab, ids, elapsed) ==
    [v \in DOMAIN vmtab |->
        IF v \in ids
        THEN [vmtab[v] EXCEPT
                !.running_time = IF vmtab[v].state \in {READY, STOPPING, VM_OTHER}
                                 THEN @ + elapsed ELSE @,
                !.total_idle = IF vmtab[v].jobs = {} THEN @ + elapsed ELSE @,
                !.last_idle = IF vmtab[v].jobs = {} THEN @ + elapsed ELSE 0]
        ELSE vmtab[v]]

\* The loop of lines 318-333 deleting the VMs in state OTHER as well
CollectVmsAlsoOther ==
    /\ pc = "gc"
    /\ LET down == {v \in vms : vm[v].state \in {DOWN, VM_OTHER}}
           late == {v \in vms \ down : TimedOut(v)}
       IN  /\ vms' = vms \ down
           /\ tasks' = Dispatch(tasks, "stop", late)
    /\ vm' = Heap(Account(vm, vms', now - last_cycle_at),
                  vms', pending_auth, vms_by_nodename, tasks', call)
    /\ delta_i' = 0
    /\ pc' = "start"
    /\ UNCHANGED <<now, cycle, last_cycle_at, done, vmid, pending_auth, vms_by_nodename,
                   jobs, candidates, last_update, current_jobids, call>>
    /\ ret' = "none"
    /\ response' = "none"
    /\ UNCHANGED <<max_cycles, obj, sim, selected>>

\* `for vm in self.vms.values()` (lines 318-333) over the copy of the values:
\* DOWN VMs are deleted from self.vms, a stop is handed to the pool for every
\* STARTING VM past its timeout, the counters of the others are brought up to
\* date with elapsed = now - last_cycle_at (line 311).
CollectVms ==
    /\ pc = "gc"
    /\ LET down == {v \in vms : vm[v].state = DOWN}
           late == {v \in vms \ down : TimedOut(v)}
       IN  /\ vms' = vms \ down
           /\ tasks' = Dispatch(tasks, "stop", late)
    /\ vm' = Heap(Account(vm, vms', now - last_cycle_at),
                  vms', pending_auth, vms_by_nodename, tasks', call)
    /\ delta_i' = 0
    /\ pc' = "start"
    /\ UNCHANGED <<now, cycle, last_cycle_at, done, vmid, pending_auth, vms_by_nodename,
                   jobs, candidates, last_update, current_jobids, call>>
    /\ ret' = "none"
    /\ response' = "none"
    /\ UNCHANGED <<max_cycles, obj, sim, selected>>

\* A policy that asks for a VM whether or not a job is waiting
AlwaysNeeded == TRUE

\* Orchestrator.is_new_vm_needed (lines 602-605)
is_new_vm_needed == Cardinality(candidates) > 0

\* new_vm (lines 435-459): the next vmid, an auth token that is not a key of
\* _pending_auth, state STARTING.
new_vm(id, auth) ==
    [state |-> STARTING, auth |-> auth, nodename |-> NoHost, jobs |-> {},
     started_at |-> NoTime, total_idle |-> 0, last_idle |-> 0, running_time |-> 0]

\* the tokens random_password may return
random_password == Auths

\* The start loop with a new_vm that numbers the VM after the VmInfo objects
\* still alive instead of incrementing self._vmid
StartVmsCountingLive(maxid) ==
    /\ pc = "start"
    /\ IF delta_i < max_delta /\ is_new_vm_needed /\ Cardinality(vms) < max_vms
       THEN /\ vmid < maxid
            /\ Cardinality(DOMAIN vm) + 1 \notin DOMAIN vm
            /\ \E auth \in random_password \ DOMAIN pending_auth :
                 vm' = Put(vm, Cardinality(DOMAIN vm) + 1,
                           new_vm(Cardinality(DOMAIN vm) + 1, auth))
            /\ vmid' = Cardinality(DOMAIN vm) + 1
            /\ tasks' = Dispatch(tasks, "start", {Cardinality(DOMAIN vm) + 1})
            /\ delta_i' = delta_i + 1
            /\ pc' = pc
       ELSE /\ pc' = "stop"
            /\ delta_i' = 0
            /\ UNCHANGED <<vmid, vm, tasks>>
    /\ UNCHANGED <<now, cycle, last_cycle_at, done, vms, pending_auth, vms_by_nodename,
                   jobs, candidates, last_update, current_jobids, call>>
    /\ ret' = "none"
    /\ response' = "none"
    /\ UNCHANGED <<max_cycles, obj, sim, selected>>

\* The start loop without the bound of xrange(self.max_delta)
StartVmsNoCap(maxid) ==
    /\ pc = "start"
    /\ IF is_new_vm_needed /\ Cardinality(vms) < max_vms
       THEN /\ vmid < maxid
            /\ \E auth \in random_password \ DOMAIN pending_auth :
                 vm' = Put(vm, vmid + 1, new_vm(vmid + 1, auth))
            /\ vmid' = vmid + 1
            /\ tasks' = Dispatch(tasks, "start", {vmid + 1})
            /\ delta_i' = delta_i + 1
            /\ pc' = pc
       ELSE /\ pc' = "stop"
            /\ delta_i' = 0
            /\ UNCHANGED <<vmid, vm, tasks>>
    /\ UNCHANGED <<now, cycle, last_cycle_at, done, vms, pending_auth, vms_by_nodename,
                   jobs, candidates, last_update, current_jobids, call>>
    /\ ret' = "none"
    /\ response' = "none"
    /\ UNCHANGED <<max_cycles, obj, sim, selected>>

\* One iteration of `for _ in xrange(self.max_delta)` (lines 336-340).
StartVms(maxid) ==
    /\ pc = "start"
    /\ IF delta_i < max_delta /\ is_new_vm_needed /\ Cardinality(vms) < max_vms
       THEN /\ vmid < maxid
            /\ \E auth \in random_password \ DOMAIN pending_auth :
                 vm' = Put(vm, vmid + 1, new_vm(vmid + 1, auth))
            /\ vmid' = vmid + 1
            /\ tasks' = Dispatch(tasks, "start", {vmid + 1})
            /\ delta_i' = delta_i + 1
            /\ pc' = pc
       ELSE /\ pc' = "stop"
            /\ delta_i' = 0
            /\ UNCHANGED <<vmid, vm, tasks>>
    /\ UNCHANGED <<now, cycle, last_cycle_at, done, vms, pending_auth, vms_by_nodename,
                   jobs, candidates, last_update, current_jobids, call>>
    /\ ret' = "none"
    /\ response' = "none"
    /\ UNCHANGED <<max_cycles, obj, sim, selected>>

\* The stop loop without its test for READY: a VM that is already STOPPING is chosen again
StopVmsAnyState ==
    /\ pc = "stop"
    /\ \E stop \in SUBSET {v \in vms : vm[v].state \in {READY, STOPPING}} :
        /\ vm' = SetState(vm, stop, STOPPING)
        /\ tasks' = Dispatch(tasks, "stop", stop)
        /\ selected' = selected \cup stop
    /\ pc' = "end"
    /\ UNCHANGED <<now, cycle, last_cycle_at, done, delta_i, vmid, vms, pending_auth, vms_by_nodename,
                   jobs, candidates, last_update, current_jobids, call>>
    /\ ret' = "none"
    /\ response' = "none"
    /\ UNCHANGED <<max_cycles, obj, sim>>

\* `for vmid, vm in self.vms.items()` (lines 348-355): `stop` holds the READY VMs
\* for which can_vm_be_stopped answered true.
StopVms ==
    /\ pc = "stop"
    /\ \E stop \in SUBSET {v \in vms : vm[v].state = READY} :
        /\ vm' = SetState(vm, stop, STOPPING)
        /\ tasks' = Dispatch(tasks, "stop", stop)
        /\ selected' = selected \cup stop
    /\ pc' = "end"
    /\ UNCHANGED <<now, cycle, last_cycle_at, done, delta_i, vmid, vms, pending_auth, vms_by_nodename,
                   jobs, candidates, last_update, current_jobids, call>>
    /\ ret' = "none"
    /\ response' = "none"
    /\ UNCHANGED <<max_cycles, obj, sim>>

\* The end of a cycle with a loop test that lets one more cycle through
EndCycleOneMore(maxtime) ==
    /\ pc = "end"
    /\ now + delay <= maxtime
    /\ cycle' = cycle + 1
    /\ done' = done + 1
    /\ last_cycle_at' = now
    /\ now' = now + delay
    /\ pc' = IF max_cycles = 0 \/ done' <= max_cycles THEN "update" ELSE "returned"
    /\ UNCHANGED <<delta_i, vmid, vm, vms, pending_auth, vms_by_nodename,
                   jobs, candidates, last_update, current_jobids, tasks, call>>
    /\ ret' = "none"
    /\ response' = "none"
    /\ UNCHANGED <<max_cycles, obj, sim, selected>>

\* End of a cycle (lines 357-370): after() is a no-op hook; the cycle counter
\* advances and the thread sleeps until the next cycle is due; then the test
\* of the `while` (line 307) lets run() go on or return.
EndCycle(maxtime) ==
    /\ pc = "end"
    /\ now + delay <= maxtime
    /\ cycle' = cycle + 1
    /\ done' = done + 1
    /\ last_cycle_at' = now
    /\ now' = now + delay
    /\ pc' = IF max_cycles = 0 \/ done' < max_cycles THEN "update" ELSE "returned"
    /\ UNCHANGED <<delta_i, vmid, vm, vms, pending_auth, vms_by_nodename,
                   jobs, candidates, last_update, current_jobids, tasks, call>>
    /\ ret' = "none"
    /\ response' = "none"
    /\ UNCHANGED <<max_cycles, obj, sim, selected>>

\* ------------------------------------------------------------ pool workers
Take(q, t) == q (-) SetToBag({t})

\* _do_start_vm with the two tables filled in before cloud.start_vm is called
DoStartVmIndexesFirst(v) ==
    /\ BagIn(<<"start", v>>, tasks)
    /\ tasks' = Take(tasks, <<"start", v>>)
    /\ vms' = vms \cup {v}
    /\ pending_auth' = Put(pending_auth, vm[v].auth, v)
    /\ \E raises \in BOOLEAN :
        IF raises
        THEN vm' = Heap(SetState(vm, {v}, DOWN), vms', pending_auth',
                        vms_by_nodename, tasks', call)
        ELSE vm' = Heap([vm EXCEPT ![v].started_at = now], vms', pending_auth',
                        vms_by_nodename, tasks', call)
    /\ UNCHANGED <<now, pc, cycle, last_cycle_at, done, delta_i, vmid, vms_by_nodename,
                   jobs, candidates, last_update, current_jobids, call>>
    /\ ret' = "none"
    /\ response' = "none"
    /\ UNCHANGED <<max_cycles, obj, sim, selected>>

\* _do_start_vm (lines 372-384); cloud.start_vm returns or raises.
DoStartVm(v) ==
    /\ BagIn(<<"start", v>>, tasks)
    /\ tasks' = Take(tasks, <<"start", v>>)
    /\ \E raises \in BOOLEAN :
        IF raises
        THEN /\ vm' = Heap(SetState(vm, {v}, DOWN), vms, pending_auth,
                           vms_by_nodename, tasks', call)
             /\ UNCHANGED <<vms, pending_auth>>
        ELSE /\ vms' = vms \cup {v}
             /\ pending_auth' = Put(pending_auth, vm[v].auth, v)
             /\ vm' = Heap([vm EXCEPT ![v].started_at = now], vms', pending_auth',
                           vms_by_nodename, tasks', call)
    /\ UNCHANGED <<now, pc, cycle, last_cycle_at, done, delta_i, vmid, vms_by_nodename,
                   jobs, candidates, last_update, current_jobids, call>>
    /\ ret' = "none"
    /\ response' = "none"
    /\ UNCHANGED <<max_cycles, obj, sim, selected>>

\* _do_stop_vm (lines 386-411); cloud.stop_vm returns or raises.
DoStopVm(v) ==
    /\ BagIn(<<"stop", v>>, tasks)
    /\ tasks' = Take(tasks, <<"stop", v>>)
    /\ \E raises \in BOOLEAN :
        vm' = Heap(IF raises THEN vm ELSE SetState(vm, {v}, DOWN), vms, pending_auth,
                   vms_by_nodename, tasks', call)
    /\ UNCHANGED <<now, pc, cycle, last_cycle_at, done, delta_i, vmid, vms, pending_auth, vms_by_nodename,
                   jobs, candidates, last_update, current_jobids>>
    /\ ret' = "none"
    /\ response' = "none"
    /\ UNCHANGED <<max_cycles, obj, sim, selected>>
    /\ UNCHANGED call

\* ------------------------------------------------------------ vm_is_ready
\* vm_is_ready without the membership test of line 567
ReadyCheckNoTest(c, auth, nodename) ==
    /\ call[c].pc = "idle"
    /\ call' = [call EXCEPT ![c] = [pc |-> "pop", auth |-> auth,
                                    nodename |-> nodename, vm |-> NoVm]]
    /\ ret' = "none"
    /\ response' = "none"
    /\ UNCHANGED <<max_cycles, obj, sim, selected>>
    /\ UNCHANGED <<now, pc, cycle, last_cycle_at, done, delta_i, vmid, vm, vms, pending_auth, vms_by_nodename,
                   jobs, candidates, last_update, current_jobids, tasks>>

\* Lines 567-572: the membership test; an unknown auth returns False.
ReadyCheck(c, auth, nodename) ==
    /\ call[c].pc = "idle"
    /\ IF auth \notin DOMAIN pending_auth
       THEN /\ ret' = "False"
            /\ response' = ready("False")
            /\ UNCHANGED <<max_cycles, obj, sim, selected>>
            /\ UNCHANGED call
       ELSE /\ call' = [call EXCEPT ![c] = [pc |-> "pop", auth |-> auth,
                                            nodename |-> nodename, vm |-> NoVm]]
            /\ ret' = "none"
            /\ response' = "none"
            /\ UNCHANGED <<max_cycles, obj, sim, selected>>
    /\ UNCHANGED <<now, pc, cycle, last_cycle_at, done, delta_i, vmid, vm, vms, pending_auth, vms_by_nodename,
                   jobs, candidates, last_update, current_jobids, tasks>>

\* A request without the auth or the hostname parameter (webapp.py:80-91):
\* status 400, vm_is_ready is not called.
ReadyMissingParameter(c) ==
    /\ call[c].pc = "idle"
    /\ response' = "400"
    /\ UNCHANGED <<max_cycles, obj, sim, selected>>
    /\ ret' = "none"
    /\ UNCHANGED <<now, pc, cycle, last_cycle_at, done, delta_i, vmid, vm, vms, pending_auth, vms_by_nodename,
                   jobs, candidates, last_update, current_jobids, tasks, call>>

\* Lines 573-574: `pop` raises KeyError when the key has gone since the test;
\* the assertion on the state follows the pop.
ReadyPop(c) ==
    /\ call[c].pc = "pop"
    /\ IF call[c].auth \notin DOMAIN pending_auth
       THEN /\ call' = [call EXCEPT ![c] = IdleCall]
            /\ ret' = "KeyError"
            /\ response' = ready("KeyError")
            /\ UNCHANGED <<max_cycles, obj, sim, selected>>
            /\ UNCHANGED pending_auth
       ELSE /\ pending_auth' = Del(pending_auth, {call[c].auth})
            /\ IF vm[pending_auth[call[c].auth]].state = STARTING
               THEN /\ call' = [call EXCEPT ![c].pc = "state",
                                            ![c].vm = pending_auth[call[c].auth]]
                    /\ ret' = "none"
                    /\ response' = "none"
                    /\ UNCHANGED <<max_cycles, obj, sim, selected>>
               ELSE /\ call' = [call EXCEPT ![c] = IdleCall]
                    /\ ret' = "AssertionError"
                    /\ response' = ready("AssertionError")
                    /\ UNCHANGED <<max_cycles, obj, sim, selected>>
    /\ vm' = Heap(vm, vms, pending_auth', vms_by_nodename, tasks, call')
    /\ UNCHANGED <<now, pc, cycle, last_cycle_at, done, delta_i, vmid, vms, vms_by_nodename,
                   jobs, candidates, last_update, current_jobids, tasks>>

\* Line 575
ReadySetState(c) ==
    /\ call[c].pc = "state"
    /\ vm' = SetState(vm, {call[c].vm}, READY)
    /\ call' = [call EXCEPT ![c].pc = "nodename"]
    /\ ret' = "none"
    /\ response' = "none"
    /\ UNCHANGED <<max_cycles, obj, sim, selected>>
    /\ UNCHANGED <<now, pc, cycle, last_cycle_at, done, delta_i, vmid, vms, pending_auth, vms_by_nodename,
                   jobs, candidates, last_update, current_jobids, tasks>>

\* Lines 576-577
ReadySetNodename(c) ==
    /\ call[c].pc = "nodename"
    /\ vm' = [vm EXCEPT ![call[c].vm].nodename = call[c].nodename]
    /\ call' = [call EXCEPT ![c].pc = "register"]
    /\ ret' = "none"
    /\ response' = "none"
    /\ UNCHANGED <<max_cycles, obj, sim, selected>>
    /\ UNCHANGED <<now, pc, cycle, last_cycle_at, done, delta_i, vmid, vms, pending_auth, vms_by_nodename,
                   jobs, candidates, last_update, current_jobids, tasks>>

\* Lines 578-585
ReadyRegister(c) ==
    /\ call[c].pc = "register"
    /\ vms_by_nodename' = Put(vms_by_nodename, call[c].nodename, call[c].vm)
    /\ call' = [call EXCEPT ![c] = IdleCall]
    /\ ret' = "True"
    /\ response' = ready("True")
    /\ UNCHANGED <<max_cycles, obj, sim, selected>>
    /\ vm' = Heap(vm, vms, pending_auth, vms_by_nodename', tasks, call')
    /\ UNCHANGED <<now, pc, cycle, last_cycle_at, done, delta_i, vmid, vms, pending_auth,
                   jobs, candidates, last_update, current_jobids, tasks>>

\* The threads of the pool
Pool ==
    \/ \E v \in DOMAIN vm : DoStartVm(v)
    \/ \E v \in DOMAIN vm : DoStopVm(v)

\* A web thread running vm_is_ready
WebThread(c) ==
    \/ \E auth \in Auths, nodename \in Hosts : ReadyCheck(c, auth, nodename)
    \/ ReadyMissingParameter(c)
    \/ ReadyPop(c)
    \/ ReadySetState(c)
    \/ ReadySetNodename(c)
    \/ ReadyRegister(c)

\* One web thread, two VMs, a batch system with one queued job.
Next ==
    \/ UpdateJobStatus(Snapshots(QueuedRecords({1}, last_update, now), 1))
    \/ UpdateVmStatus
    \/ CollectVms
    \/ StartVms(MaxVmId)
    \/ StopVms
    \/ EndCycle(MaxTime)
    \/ Pool
    \/ WebThread(1)

Spec == Init /\ [][Next]_vars

\* A longer run with one VM and every list of jobs.
NextJobs ==
    \/ UpdateJobStatus(Snapshots(TimelyRecords(JobIds, last_update, now), MaxJobs))
    \/ UpdateVmStatus
    \/ CollectVms
    \/ StartVms(OneVm)
    \/ StopVms
    \/ EndCycle(LongTime)
    \/ Pool
    \/ WebThread(1)

SpecJobs == Init /\ [][NextJobs]_vars

\* A longer run in which no VM ever calls back.
NextSilent ==
    \/ UpdateJobStatus(Snapshots(QueuedRecords({1}, last_update, now), 1))
    \/ UpdateVmStatus
    \/ CollectVms
    \/ StartVms(MaxVmId)
    \/ StopVms
    \/ EndCycle(LongTime)
    \/ Pool

SpecSilent == Init /\ [][NextSilent]_vars

\* Two web threads and one VM.
NextRace ==
    \/ UpdateJobStatus(Snapshots(QueuedRecords({1}, last_update, now), 1))
    \/ UpdateVmStatus
    \/ CollectVms
    \/ StartVms(OneVm)
    \/ StopVms
    \/ EndCycle(MaxTime)
    \/ Pool
    \/ \E c \in Callers : WebThread(c)

SpecRace == Init /\ [][NextRace]_vars

\* One web thread, more VMs than max_delta, another queued job every cycle.
NextBurst ==
    \/ UpdateJobStatus(Snapshots(QueuedRecords(JobIds, last_update, now), 1))
    \/ UpdateVmStatus
    \/ CollectVms
    \/ StartVms(ManyVms)
    \/ StopVms
    \/ EndCycle(MaxTime)
    \/ Pool
    \/ WebThread(1)

SpecBurst == Init /\ [][NextBurst]_vars

\* run(delay, max_cycles) for every max_cycles up to MaxCycles; one VM, no
\* ready callback.
InitCycles ==
    /\ Constructed
    /\ max_cycles \in 0..MaxCycles
    /\ obj = NoObject
    /\ sim = NoSimulation

NextCycles ==
    \/ UpdateJobStatus(Snapshots(QueuedRecords({1}, last_update, now), 1))
    \/ UpdateVmStatus
    \/ CollectVms
    \/ StartVms(OneVm)
    \/ StopVms
    \/ EndCycle(LongTime)
    \/ Pool

SpecCycles == InitCycles /\ [][NextCycles]_vars

\* ------------------------------------------- the constructors, one at a time
\* A Struct is a dict of attributes (util.py, lines 69-99): `name in self` is
\* membership in its domain.  `kw` is what the caller passed, `self` the
\* attributes of the object, `exc` the exception that left the call and
\* `answer` what is_running returned.
MaxBill == 1            \* largest bill a VmInfo is constructed with
Invalid == "whatever but invalid"      \* test_vminfo.py, line 49

Restrict(d, names) == [n \in names |-> d[n]]

SetDefault(d, name, value) == IF name \in DOMAIN d THEN d ELSE Put(d, name, value)

VmInfoKwargs ==
    {Restrict(kw, names) :
        kw \in [vmid : {1},
                state : {STARTING, READY, DRAINING, STOPPING, DOWN, VM_OTHER, Invalid},
                bill : 0..MaxBill,
                jobs : SUBSET {1}],
        names \in SUBSET {"vmid", "state", "bill", "jobs"}}

JobInfoKwargs ==
    {Restrict(kw, names) :
        kw \in [jobid : JobIds,
                state : {PENDING, RUNNING, FINISHED, JOB_OTHER, Invalid},
                exec_node_name : Hosts],
        names \in SUBSET {"jobid", "state", "exec_node_name"}}

Call(cls, kw) == [cls |-> cls, pc |-> "call", kw |-> kw, self |-> kw,
                  exc |-> "none", answer |-> "none"]

\* VmInfo.__init__ (lines 171-189)
VmInfo(o) ==
    IF "vmid" \notin DOMAIN o.self
    THEN [o EXCEPT !.pc = "raised", !.exc = "AssertionError"]
    ELSE IF /\ "state" \in DOMAIN o.self
            /\ o.self.state \notin {STARTING, READY, STOPPING, DOWN, VM_OTHER}
    THEN [o EXCEPT !.pc = "raised", !.exc = "AssertionError"]
    ELSE [o EXCEPT !.pc = "made",
                   !.self = SetDefault(SetDefault(SetDefault(@, "state", DOWN), "bill", 0),
                                       "jobs", {})]

\* JobInfo.__init__ (lines 78-89)
JobInfo(o) ==
    IF "jobid" \notin DOMAIN o.self
    THEN [o EXCEPT !.pc = "raised", !.exc = "AssertionError"]
    ELSE IF "state" \notin DOMAIN o.self
    THEN [o EXCEPT !.pc = "raised", !.exc = "AssertionError"]
    ELSE IF o.self.state \notin {PENDING, RUNNING, FINISHED, JOB_OTHER}
    THEN [o EXCEPT !.pc = "raised", !.exc = "AssertionError"]
    ELSE [o EXCEPT !.pc = "made"]

\* JobInfo.is_running (lines 101-115)
is_running(o) ==
    IF o.self.state = RUNNING
    THEN IF "exec_node_name" \in DOMAIN o.self
         THEN [o EXCEPT !.pc = "asked", !.answer = "True"]
         ELSE [o EXCEPT !.pc = "raised", !.exc = "AssertionError"]
    ELSE [o EXCEPT !.pc = "asked", !.answer = "False"]

NewVmInfo ==
    /\ obj.cls = "VmInfo"
    /\ obj.pc = "call"
    /\ obj' = VmInfo(obj)
    /\ UNCHANGED <<now, pc, cycle, last_cycle_at, done, delta_i, vmid, vm, vms, pending_auth,
                   vms_by_nodename, jobs, candidates, last_update, current_jobids, tasks, call,
                   response, ret, max_cycles, sim, selected>>

NewJobInfo ==
    /\ obj.cls = "JobInfo"
    /\ obj.pc = "call"
    /\ obj' = JobInfo(obj)
    /\ UNCHANGED <<now, pc, cycle, last_cycle_at, done, delta_i, vmid, vm, vms, pending_auth,
                   vms_by_nodename, jobs, candidates, last_update, current_jobids, tasks, call,
                   response, ret, max_cycles, sim, selected>>

IsRunning ==
    /\ obj.cls = "JobInfo"
    /\ obj.pc = "made"
    /\ obj' = is_running(obj)
    /\ UNCHANGED <<now, pc, cycle, last_cycle_at, done, delta_i, vmid, vm, vms, pending_auth,
                   vms_by_nodename, jobs, candidates, last_update, current_jobids, tasks, call,
                   response, ret, max_cycles, sim, selected>>

InitObjects ==
    /\ Constructed
    /\ max_cycles = 0
    /\ obj \in {Call("VmInfo", kw) : kw \in VmInfoKwargs}
                  \cup {Call("JobInfo", kw) : kw \in JobInfoKwargs}
    /\ sim = NoSimulation

NextObjects ==
    \/ NewVmInfo
    \/ NewJobInfo
    \/ IsRunning

SpecObjects == InitObjects /\ [][NextObjects]_vars

\* ------------------------------------------------ the simulator (simul.py)
\* `sim` is one run of simul.py: the command-line arguments, the rows of the
\* trace file, where the run stands and the exception that ended it.
\* `started` and `ever_running` are the VMs start_vm (lines 220-232) was called
\* for and those it marked ever_running, `assigned` the trace jobs
\* update_job_status (lines 145-157) has put on a VM, `finished` those it has
\* removed again (lines 134-139) and `rows` the number of rows before() has
\* written to the output file (lines 165-168).
MaxClusterSize == 2     \* largest --cluster-size
MaxSimVms == 2          \* largest --max-vms
MaxTrace == 2           \* rows of the trace file

TraceRows == [submitted_at : 1..MaxTime, duration : 1..MaxTime]

Traces == UNION {[1..n -> TraceRows] : n \in 0..MaxTrace}

Simulation(size, maxvms, trace) ==
    [pc |-> "main", cluster_size |-> size, max_vms |-> maxvms, trace |-> trace,
     exc |-> "none", started |-> {}, ever_running |-> {}, assigned |-> {},
     finished |-> {}, rows |-> 0]

\* `OrchestratorSimulation(...).run(0)` (line 273).  The constructor (lines
\* 51-60) calls Orchestrator.__init__(self, cloud=self, max_vms=..., max_delta=...)
\* without the required argument `batchsys` (orchestrator.py, line 249): the call
\* raises TypeError before any attribute of the simulator is set, and run() is
\* never entered.
SimulMain ==
    /\ sim.pc = "main"
    /\ sim' = [sim EXCEPT !.pc = "raised", !.exc = "TypeError"]
    /\ UNCHANGED <<now, pc, cycle, last_cycle_at, done, delta_i, vmid, vm, vms, pending_auth,
                   vms_by_nodename, jobs, candidates, last_update, current_jobids, tasks, call,
                   response, ret, max_cycles, obj, selected>>

InitSimul ==
    /\ Constructed
    /\ max_cycles = 0
    /\ obj = NoObject
    /\ sim \in {Simulation(size, maxvms, trace) :
                   size \in 0..MaxClusterSize, maxvms \in 0..MaxSimVms, trace \in Traces}

NextSimul == SimulMain

SpecSimul == InitSimul /\ [][NextSimul]_vars

\* The interpreter keeps running the program until it ends.
SpecSimulFair == SpecSimul /\ WF_vars(NextSimul)

\* The longest run: one VM, one job id, one web thread.
NextLate ==
    \/ UpdateJobStatus(Snapshots(TimelyRecords({1}, last_update, now), 1))
    \/ UpdateVmStatus
    \/ CollectVms
    \/ StartVms(OneVm)
    \/ StopVms
    \/ EndCycle(LateTime)
    \/ Pool
    \/ WebThread(1)

SpecLate == Init /\ [][NextLate]_vars

\* ---------------------------------- the replay batch system (batchsys/replay.py)
\* `obj` is a JobsFromFile object: `trace` the jobs the constructor loaded,
\* `future_jobs` those not yet submitted (descending by submitted_at, the next
\* one last), `jobs` the list get_sched_info returns, `exc` the exception that
\* left the last call.
RemoveAt(s, i) == [k \in 1..(Len(s) - 1) |-> IF k < i THEN s[k] ELSE s[k + 1]]

\* the constructor (lines 43-101): the rows of the file become JobInfo
\* objects, sorted by descending submitted_at (a stable sort)
LoadedTraces ==
    {[i \in 1..Len(t) |-> [jobid |-> i, submitted_at |-> t[i].submitted_at,
                           duration |-> t[i].duration]] :
        t \in {t \in Traces : /\ Len(t) >= 1
                              /\ \A i \in 1..(Len(t) - 1) :
                                    t[i].submitted_at >= t[i + 1].submitted_at}}

JobsFromFile(loaded) ==
    [cls |-> "JobsFromFile", trace |-> loaded, future_jobs |-> loaded, jobs |-> <<>>,
     time_last_checked |-> 0, exc |-> "none"]

\* next_jobs (lines 131-144): the jobs popped from future_jobs and yielded,
\* and what is left of future_jobs
RECURSIVE next_jobs(_, _, _, _)
next_jobs(future, since, until, yielded) ==
    IF Len(future) = 0 THEN [future_jobs |-> future, yielded |-> yielded]
    ELSE LET job == future[Len(future)]
             rest == SubSeq(future, 1, Len(future) - 1)
         IN  IF until >= job.submitted_at
             THEN IF job.submitted_at >= since
                  THEN next_jobs(rest, since, until, Append(yielded, job))
                  ELSE next_jobs(rest, since, until, yielded)
             ELSE [future_jobs |-> future, yielded |-> yielded]

\* `for i, job in enumerate(self.jobs): ... del self.jobs[i]` (lines 126-128):
\* the list is changed while it is iterated, the index moves on by one after
\* a deletion as well (i counts from 1 here)
RECURSIVE RemoveTerminated(_, _, _)
RemoveTerminated(js, i, t) ==
    IF i > Len(js) THEN js
    ELSE IF js[i].submitted_at + js[i].duration < t
         THEN RemoveTerminated(RemoveAt(js, i), i + 1, t)
         ELSE RemoveTerminated(js, i + 1, t)

\* get_sched_info (lines 109-129) when the timer returns t
get_sched_info(o, t) ==
    IF ~(t > o.time_last_checked)
    THEN [o EXCEPT !.exc = "AssertionError"]
    ELSE LET n == next_jobs(o.future_jobs, o.time_last_checked, t, <<>>)
         IN  [o EXCEPT !.future_jobs = n.future_jobs,
                       !.jobs = RemoveTerminated(o.jobs \o n.yielded, 1, t),
                       !.time_last_checked = t,
                       !.exc = "none"]

\* One call of get_sched_info; the timer never runs backwards.
GetSchedInfo ==
    /\ obj.cls = "JobsFromFile"
    /\ \E t \in obj.time_last_checked..LateTime :
          /\ t >= 1
          /\ obj' = get_sched_info(obj, t)
    /\ UNCHANGED <<now, pc, cycle, last_cycle_at, done, delta_i, vmid, vm, vms, pending_auth,
                   vms_by_nodename, jobs, candidates, last_update, current_jobids, tasks, call,
                   response, ret, max_cycles, sim, selected>>

InitReplay ==
    /\ Constructed
    /\ max_cycles = 0
    /\ obj \in {JobsFromFile(loaded) : loaded \in LoadedTraces}
    /\ sim = NoSimulation

NextReplay == GetSchedInfo

SpecReplay == InitReplay /\ [][NextReplay]_vars

\* -------------------------------------------------------------- properties
\* C1: at the end of every cycle the vms table holds at most max_vms VMs.
\* The end of a cycle is the step that increments the cycle counter.
C1_VmsBoundedAtEndOfCycle ==
    [][cycle' = cycle + 1 => Cardinality(vms) <= max_vms]_vars

\* C2: every VM an entry of _pending_auth refers to is in state STARTING.
C2_PendingAuthIsStarting ==
    \A a \in DOMAIN pending_auth : vm[pending_auth[a]].state = STARTING

\* C3: every key n of _vms_by_nodename maps to a VM that is in vms, has
\* nodename n and is READY or DRAINING.
C3_NodenameIndexIsLive ==
    \A n \in DOMAIN vms_by_nodename :
        /\ vms_by_nodename[n] \in vms
        /\ vm[vms_by_nodename[n]].nodename = n
        /\ vm[vms_by_nodename[n]].state \in {READY, DRAINING}

\* C4: every change of the state of a VM is an edge of the DAG
\* STARTING -> READY -> (DRAINING ->)? STOPPING -> DOWN, STARTING -> DOWN,
\* any state -> OTHER.
C4_StateChangesFollowDag ==
    [][LET StateEdges ==
               {<<STARTING, READY>>, <<READY, DRAINING>>, <<READY, STOPPING>>,
                <<DRAINING, STOPPING>>, <<STOPPING, DOWN>>, <<STARTING, DOWN>>}
               \cup {<<s, VM_OTHER>> : s \in {STARTING, READY, DRAINING, STOPPING, DOWN}}
       IN  \A v \in (DOMAIN vm) \cap (DOMAIN vm') :
              vm'[v].state # vm[v].state
                 => <<vm[v].state, vm'[v].state>> \in StateEdges]_vars

\* C5: a VM of the vms table that is STOPPING and has no stop call waiting in
\* the pool (its stop_vm has failed) gets a new stop call from the step of
\* the cycle that stops VMs.
C5_FailedStopIsRetried ==
    [][(pc = "stop" /\ pc' = "end") =>
          \A v \in vms :
             (vm[v].state = STOPPING /\ ~BagIn(<<"stop", v>>, tasks))
                => BagIn(<<"stop", v>>, tasks')]_vars

\* C6: no VM is in state STARTING later than vm_start_timeout plus one cycle
\* (delay) after its started_at.
C6_StartingIsBounded ==
    \A v \in DOMAIN vm :
        (vm[v].state = STARTING /\ vm[v].started_at # NoTime)
           => now - vm[v].started_at <= vm_start_timeout + delay

\* C7: a job that is in the jobs of a VM of the vms table and absent from the
\* list the batch system returns is, after an update_job_status that returns,
\* not in the jobs of that VM, not in the jobs table and not in candidates,
\* whether the VM is READY, DRAINING, STOPPING or OTHER.
C7_VanishedJobIsForgotten ==
    [][(pc = "update" /\ pc' = "refresh") =>
          \A v \in {w \in vms : vm[w].state \in {READY, DRAINING, STOPPING, VM_OTHER}} :
             \A j \in vm[v].jobs \ current_jobids' :
                /\ j \notin vm'[v].jobs
                /\ j \notin DOMAIN jobs'
                /\ j \notin candidates']_vars

\* C8: of two vm_is_ready calls carrying the same auth, the one that finds
\* the auth removed from _pending_auth by the other, after both have passed
\* the membership test, returns False.
C8_SecondCallReturnsFalse ==
    [][\A c \in Callers :
          (call[c].pc = "pop" /\ call[c].auth \notin DOMAIN pending_auth /\ ReadyPop(c))
             => ret' = "False"]_vars

\* C9: vm_is_ready with an auth that is not a key of _pending_auth returns
\* False and leaves vms, _pending_auth, _vms_by_nodename and the state and
\* nodename of every VM unchanged.
C9_UnknownAuthChangesNothing ==
    [][\A c \in Callers, auth \in Auths, nodename \in Hosts :
          (auth \notin DOMAIN pending_auth /\ ReadyCheck(c, auth, nodename))
             => /\ ret' = "False"
                /\ vms' = vms
                /\ pending_auth' = pending_auth
                /\ vms_by_nodename' = vms_by_nodename
                /\ DOMAIN vm' = DOMAIN vm
                /\ \A v \in DOMAIN vm :
                      /\ vm'[v].state = vm[v].state
                      /\ vm'[v].nodename = vm[v].nodename]_vars

\* a call with an unknown auth has returned False while a VM is waiting for
\* its own callback
C9_Witness ==
    /\ ret = "False"
    /\ \E a \in DOMAIN pending_auth : vm[pending_auth[a]].state = STARTING

\* C10: a vm_is_ready call carrying the auth of a VM that is DOWN is rejected
\* like an unknown auth: it returns False at the membership test, and no step
\* of the call changes _pending_auth, _vms_by_nodename or the state of the VM.
C10_StaleAuthIsRejected ==
    [][/\ \A c \in Callers, auth \in Auths, nodename \in Hosts :
             (/\ auth \in DOMAIN pending_auth
              /\ vm[pending_auth[auth]].state = DOWN
              /\ ReadyCheck(c, auth, nodename))
                => ret' = "False"
       /\ \A c \in Callers :
             (/\ call[c].pc = "pop"
              /\ call[c].auth \in DOMAIN pending_auth
              /\ vm[pending_auth[call[c].auth]].state = DOWN
              /\ ReadyPop(c))
                => /\ pending_auth' = pending_auth
                   /\ vms_by_nodename' = vms_by_nodename]_vars

\* C11: a /x/ready request is answered 200 OK only when vm_is_ready returned
\* True; a request whose auth is not a key of _pending_auth is answered 400;
\* a request lacking a parameter is answered 400 and vm_is_ready is not called.
C11_ReadyAnswers ==
    [][/\ response' = "200 OK" => ret' = "True"
       /\ \A c \in Callers, auth \in Auths, nodename \in Hosts :
             (auth \notin DOMAIN pending_auth /\ ReadyCheck(c, auth, nodename))
                => response' = "400"
       /\ \A c \in Callers :
             ReadyMissingParameter(c) => (response' = "400" /\ ret' = "none")]_vars

\* C12: when a vm_is_ready call that found its auth in _pending_auth returns
\* True, the VM it took from _pending_auth is READY, has the call's hostname
\* as its nodename, is the entry of _vms_by_nodename under that hostname, and
\* _pending_auth no longer maps the auth to that VM; the call sets the state
\* of no other VM.
C12_ReadyBindsVm ==
    [][\A c \in Callers :
          /\ ReadyRegister(c) =>
                /\ vm'[call[c].vm].state = READY
                /\ vm'[call[c].vm].nodename = call[c].nodename
                /\ call[c].nodename \in DOMAIN vms_by_nodename'
                /\ vms_by_nodename'[call[c].nodename] = call[c].vm
                /\ \/ call[c].auth \notin DOMAIN pending_auth'
                   \/ pending_auth'[call[c].auth] # call[c].vm
          /\ ReadySetState(c) =>
                \A w \in DOMAIN vm \ {call[c].vm} : vm'[w].state = vm[w].state]_vars

\* C13: the state of a VM becomes READY only by the assignment of a
\* vm_is_ready call that carries the auth of that VM; update_vm_status leaves
\* a STARTING VM it sees running in state STARTING.
C13_OnlyReadyCallSetsReady ==
    [][/\ \A v \in DOMAIN vm' :
             (vm'[v].state = READY /\ (v \in DOMAIN vm => vm[v].state # READY))
                => /\ v \in DOMAIN vm
                   /\ \E c \in Callers :
                         /\ ReadySetState(c)
                         /\ call[c].vm = v
                         /\ call[c].auth = vm[v].auth
       /\ UpdateVmStatus =>
             \A v \in vms : vm[v].state = STARTING => vm'[v].state # READY]_vars

\* a refresh has run over a STARTING VM while another VM has been made READY
C13_Witness ==
    /\ pc = "gc"
    /\ \E v \in vms : vm[v].state = STARTING
    /\ \E w \in DOMAIN vm : vm[w].state = READY

\* C14: a start call is handed to the pool only by an iteration of the start
\* loop whose index is below max_delta and in which is_new_vm_needed holds
\* and len(vms) < max_vms, one call per iteration; an iteration in which
\* is_new_vm_needed fails or len(vms) >= max_vms ends the start step without
\* a call; the loop ends only then or after max_delta iterations.
C14_StartsBoundedByMaxDelta ==
    [][/\ delta_i' <= max_delta
       /\ (\E v \in DOMAIN vm' : CopiesIn(<<"start", v>>, tasks') > CopiesIn(<<"start", v>>, tasks))
             => /\ pc = "start" /\ pc' = "start"
                /\ delta_i < max_delta /\ delta_i' = delta_i + 1
                /\ is_new_vm_needed /\ Cardinality(vms) < max_vms
                /\ BagCardinality(tasks') = BagCardinality(tasks) + 1
       /\ (pc = "start" /\ pc' = "start") => delta_i' >= delta_i
       /\ (pc = "start" /\ ~(is_new_vm_needed /\ Cardinality(vms) < max_vms)
              /\ StartVms(ManyVms))
             => (pc' = "stop" /\ tasks' = tasks)
       /\ (pc = "start" /\ pc' = "stop")
             => \/ delta_i = max_delta
                \/ ~is_new_vm_needed
                \/ Cardinality(vms) >= max_vms]_vars

\* max_delta start calls were made in this cycle and only the bound of the
\* loop keeps it from making another
C14_Witness ==
    /\ pc = "start"
    /\ delta_i = max_delta
    /\ is_new_vm_needed
    /\ Cardinality(vms) < max_vms
    /\ vmid < ManyVms

\* C15: the stop loop of one cycle hands at most max_delta stop calls to the
\* pool.
C15_StopsBoundedByMaxDelta ==
    [][StopVms => BagCardinality(tasks') <= BagCardinality(tasks) + max_delta]_vars

\* C16: in every cycle, for every VM the loop keeps in vms: a VM without jobs
\* gains the elapsed time of the cycle in last_idle and in total_idle, so
\* that over consecutive cycles without jobs last_idle grows by the sum of
\* their elapsed times; a VM with jobs gets last_idle = 0 and keeps its
\* total_idle.  Elapsed times are not negative and no other step of the
\* cycle changes the two counters.
C16_IdleCounters ==
    [][/\ now - last_cycle_at >= 0
       /\ (pc = "gc" /\ pc' = "start") =>
             \A v \in vms' :
                IF vm[v].jobs = {}
                THEN /\ vm'[v].last_idle = vm[v].last_idle + (now - last_cycle_at)
                     /\ vm'[v].total_idle = vm[v].total_idle + (now - last_cycle_at)
                ELSE /\ vm'[v].last_idle = 0
                     /\ vm'[v].total_idle = vm[v].total_idle
       /\ pc # "gc" =>
             \A v \in DOMAIN vm \cap DOMAIN vm' :
                /\ vm'[v].last_idle = vm[v].last_idle
                /\ vm'[v].total_idle = vm[v].total_idle]_vars

\* a VM that was idle for a cycle has since got a job, and the loop has reset
\* its last_idle
C16_Witness ==
    /\ pc = "start"
    /\ \E v \in vms : /\ vm[v].jobs # {}
                      /\ vm[v].last_idle = 0
                      /\ vm[v].total_idle >= delay

\* C17: new_vm gives every VM a vmid greater than the vmid of every VM created
\* before it, whether that VM still exists or not: the counter _vmid never
\* decreases, no VM has a vmid above it, and a new VM gets the counter's next
\* value.
C17_VmIdsAreFresh ==
    [][/\ vmid' >= vmid
       /\ \A v \in DOMAIN vm' : v <= vmid'
       /\ \A v \in DOMAIN vm' \ DOMAIN vm : v = vmid + 1 /\ vmid' = vmid + 1]_vars

\* a VM was created after an earlier one had been stopped and forgotten
C17_Witness ==
    /\ vmid = MaxVmId
    /\ MaxVmId \in DOMAIN vm
    /\ \E v \in 1..(MaxVmId - 1) : v \notin DOMAIN vm

\* C18: no two VMs in state STARTING carry the same auth, the VMs whose start
\* call is still waiting in the pool included, and no step replaces the VM
\* an auth of _pending_auth maps to.
C18_StartingAuthsDistinct ==
    [][/\ \A v, w \in DOMAIN vm' :
             (v # w /\ vm'[v].state = STARTING /\ vm'[w].state = STARTING)
                => vm'[v].auth # vm'[w].auth
       /\ \A a \in DOMAIN pending_auth \cap DOMAIN pending_auth' :
             pending_auth'[a] = pending_auth[a]]_vars

\* C19: whenever update_job_status returns, the keys of self.jobs are the job
\* ids of the list get_sched_info returned and every entry has the state of
\* its record in that list; the keys stay those of that list for the rest of
\* the cycle.
C19_JobsTableMirrorsSnapshot ==
    /\ pc = "update" =>
          \A snap \in Snapshots(TimelyRecords(JobIds, last_update, now), MaxJobs) :
             \A accept \in SUBSET Submitted(snap), handled \in HandledChoices(jobs, snap) :
                LET r == update_job_status(snap, accept, handled)
                IN  r.ok => /\ DOMAIN r.jobs = JobIdsOf(snap)
                            /\ \A j \in JobIdsOf(snap) :
                                  r.jobs[j].state = RecOf(snap, j).state
    /\ pc \notin {"update", "crashed"} => DOMAIN jobs = current_jobids

\* a later update has returned with a running job in the table, the jobs of
\* the update before it gone
C19_Witness ==
    /\ pc = "refresh"
    /\ cycle >= 1
    /\ DOMAIN jobs = current_jobids
    /\ \E j \in DOMAIN jobs : jobs[j].state = RUNNING

\* C20: an exception raised by get_sched_info or by update_vm_status does not
\* end the loop: the step in which it is raised is followed by the remaining
\* steps of the cycle.
C20_FailuresAreNotFatal ==
    [][/\ ~(/\ pc = "update"
            /\ pc' = "crashed"
            /\ UNCHANGED <<jobs, candidates, vm, last_update, current_jobids>>)
       /\ ~(pc = "refresh" /\ pc' = "crashed")]_vars

\* C21: while the loop runs, no entry of self.jobs is a RUNNING job without an
\* exec_node_name.
C21_RunningJobHasExecNode ==
    pc # "crashed" =>
       \A j \in DOMAIN jobs : jobs[j].state = RUNNING => jobs[j].exec_node_name # NoHost

\* C22: run() returns only when called with max_cycles > 0, and then when
\* exactly max_cycles cycles are done and self.cycle has grown by max_cycles;
\* the counters grow by one, at the end of a cycle and nowhere else; called
\* with max_cycles = 0, run() goes from the end of every cycle to the next.
C22_RunReturnsAfterMaxCycles ==
    [][/\ (cycle' # cycle \/ done' # done)
             => (pc = "end" /\ cycle' = cycle + 1 /\ done' = done + 1)
       /\ pc' = "returned"
             => (max_cycles > 0 /\ done' = max_cycles /\ cycle' = max_cycles)
       /\ (pc = "end" /\ pc' \notin {"end", "returned"})
             => (pc' = "update" /\ (max_cycles = 0 \/ done' < max_cycles))]_vars

\* run(delay, MaxCycles) has returned
C22_Witness ==
    /\ pc = "returned"
    /\ max_cycles = MaxCycles
    /\ cycle = MaxCycles

\* C27: a VM whose cloud.start_vm raised (it never got a started_at) is in
\* none of vms, _pending_auth and _vms_by_nodename and no vm_is_ready call
\* ever takes it; if the object is still referenced at all its state is DOWN.
\* In the step in which start_vm raises nothing is added to the three tables.
C27_FailedStartIsNotIndexed ==
    [][/\ \A v \in DOMAIN vm' :
             vm'[v].started_at = NoTime =>
                /\ v \notin vms'
                /\ \A a \in DOMAIN pending_auth' : pending_auth'[a] # v
                /\ \A n \in DOMAIN vms_by_nodename' : vms_by_nodename'[n] # v
                /\ \A c \in Callers : call'[c].vm # v
                /\ vm'[v].state \in {STARTING, DOWN}
                /\ vm'[v].state = STARTING => BagIn(<<"start", v>>, tasks')
       /\ \A v \in DOMAIN vm :
             (BagIn(<<"start", v>>, tasks) /\ ~BagIn(<<"start", v>>, tasks')
                /\ (v \in DOMAIN vm' => vm'[v].started_at = NoTime))
                => /\ vms' = vms
                   /\ pending_auth' = pending_auth
                   /\ vms_by_nodename' = vms_by_nodename]_vars

\* the start of the first VM has failed in the first cycle: the VM is gone
C27_Witness ==
    /\ cycle = 0
    /\ vmid >= 1
    /\ 1 \notin DOMAIN vm
    /\ vms = {}

\* C28: a VM leaves vms only in the loop of lines 318-322 and only in state
\* DOWN; that loop removes every VM of vms that is DOWN, whether a stop was
\* ever asked for or not; a VM that enters vms never was in it before, so
\* that a removed VM stays out.
C28_OnlyDownVmsAreCollected ==
    [][/\ \A v \in vms \ vms' :
             pc = "gc" /\ pc' = "start" /\ vm[v].state = DOWN
       /\ (pc = "gc" /\ pc' = "start") =>
             \A v \in vms : vm[v].state = DOWN => v \notin vms'
       /\ \A v \in vms' \ vms : vm[v].started_at = NoTime]_vars

\* the loop is about to run over a VM that is DOWN, that was never READY and
\* for which no stop was ever handed to the pool
C28_Witness ==
    /\ pc = "gc"
    /\ cycle = 1
    /\ \E v \in vms : /\ vm[v].state = DOWN
                      /\ vm[v].nodename = NoHost
                      /\ \A c \in Callers : call[c].vm # v


\* C29: the stop step of a cycle (lines 348-355) changes the state of, and
\* dispatches _do_stop_vm for, exactly the VMs it chose; each of them is in
\* self.vms and READY at that step, is STOPPING when the step is over with one more
\* stop task queued, and was never chosen by an earlier stop step; running jobs
\* (vm.jobs non-empty) do not keep a VM from being chosen.
C29_StopStepSelectsReadyVmsOnce ==
    [][(pc = "stop" /\ pc' = "end") =>
         /\ DOMAIN vm' = DOMAIN vm
         /\ \A v \in DOMAIN vm :
              (\/ vm'[v] # vm[v]
               \/ CopiesIn(<<"stop", v>>, tasks') # CopiesIn(<<"stop", v>>, tasks)
               \/ v \in selected' \ selected)
              => /\ v \in vms
                 /\ vm[v].state = READY
                 /\ vm'[v] = [vm[v] EXCEPT !.state = STOPPING]
                 /\ CopiesIn(<<"stop", v>>, tasks') = CopiesIn(<<"stop", v>>, tasks) + 1
                 /\ v \notin selected
         /\ \A t \in BagToSet(tasks) \cup BagToSet(tasks') :
              t[1] = "start" => CopiesIn(t, tasks') = CopiesIn(t, tasks)]_vars

C29_Witness ==
    /\ pc = "end"
    /\ \E v \in selected \cap DOMAIN vm :
        /\ vm[v].state = STOPPING
        /\ vm[v].jobs # {}
        /\ BagIn(<<"stop", v>>, tasks)


\* C30: no step of the reconciliation loop (a step that moves pc) is taken from
\* a state in which a VM is READY without a nodename: vm_is_ready would publish
\* the state (line 575) and the nodename (line 577) together.
C30_ReadyVmHasNodename ==
    [][pc' # pc => \A v \in DOMAIN vm : vm[v].state = READY => vm[v].nodename # NoHost]_vars


\* C23: VmInfo(vmid=..., state=s) is constructed for each of the six states
\* STARTING, READY, DRAINING, STOPPING, DOWN, OTHER and raises AssertionError for
\* any other state; an attribute not passed takes its default: state DOWN,
\* bill 0.0, jobs the empty set.
C23_VmInfoAcceptsSixStates ==
    (obj.cls = "VmInfo" /\ obj.pc # "call" /\ "vmid" \in DOMAIN obj.kw) =>
        /\ obj.pc = "raised" <=>
              /\ "state" \in DOMAIN obj.kw
              /\ obj.kw.state \notin {STARTING, READY, DRAINING, STOPPING, DOWN, VM_OTHER}
        /\ obj.pc = "raised" => obj.exc = "AssertionError"
        /\ obj.pc = "made" =>
              /\ obj.self.state = IF "state" \in DOMAIN obj.kw THEN obj.kw.state ELSE DOWN
              /\ obj.self.bill = IF "bill" \in DOMAIN obj.kw THEN obj.kw.bill ELSE 0
              /\ obj.self.jobs = IF "jobs" \in DOMAIN obj.kw THEN obj.kw.jobs ELSE {}

\* C24: JobInfo(jobid=...) without a state is constructed, and is_running()
\* answers True for a job constructed with an exec_node_name and False for one
\* constructed without; JobInfo without a jobid raises AssertionError.
C24_JobInfoFromJobidAlone ==
    (obj.cls = "JobInfo" /\ obj.pc # "call") =>
        /\ "jobid" \notin DOMAIN obj.kw => (obj.pc = "raised" /\ obj.exc = "AssertionError")
        /\ ("jobid" \in DOMAIN obj.kw /\ "state" \notin DOMAIN obj.kw) => obj.pc # "raised"
        /\ obj.pc = "asked" => (obj.answer = "True" <=> "exec_node_name" \in DOMAIN obj.kw)


\* C25: for every finite trace, a simulation that may have at least one VM
\* (cluster_size + max_vms >= 1) eventually finds no job running, pending or
\* left in the trace, and exits (simul.py, lines 159-163).
C25_SimulationExits ==
    (sim.pc = "main" /\ sim.cluster_size + sim.max_vms >= 1) ~> (sim.pc = "exited")

C36_CandidatesArePendingJobs ==
    pc # "crashed" =>
       \A j \in candidates : j \in DOMAIN jobs /\ jobs[j].state = PENDING

\* an update has returned with a candidate and a running job in the table,
\* after an earlier update had made another job a candidate
C36_Witness ==
    /\ pc = "refresh"
    /\ cycle >= 1
    /\ candidates # {}
    /\ \E j \in DOMAIN jobs : jobs[j].state = RUNNING /\ j \notin candidates


\* C37: when update_job_status has returned, every job id in the jobs set of a
\* READY VM is a key of self.jobs, and the job is RUNNING with the nodename of
\* that VM as its exec_node_name.
C37_VmJobsAreRunningThere ==
    pc = "refresh" =>
       \A v \in DOMAIN vm :
          vm[v].state = READY =>
             \A j \in vm[v].jobs :
                /\ j \in DOMAIN jobs
                /\ jobs[j].state = RUNNING
                /\ jobs[j].exec_node_name = vm[v].nodename


\* C38: when update_job_status returns, every RUNNING job of self.jobs
\* whose exec_node_name is the nodename of a READY VM of self.vms, registered
\* under that name in _vms_by_nodename, is in the jobs set of that VM.
C38_RunningJobsAreOnTheirVm ==
    [][(pc = "update" /\ pc' = "refresh") =>
         \A j \in DOMAIN jobs', v \in vms' :
            (/\ jobs'[j].state = RUNNING
             /\ vm'[v].state = READY
             /\ vm'[v].nodename # NoHost
             /\ jobs'[j].exec_node_name = vm'[v].nodename
             /\ vm'[v].nodename \in DOMAIN vms_by_nodename'
             /\ vms_by_nodename'[vm'[v].nodename] = v)
            => j \in vm'[v].jobs]_vars


\* C39: the first iteration of the start loop of a cycle (lines 336-340) that
\* finds self.candidates non-empty and len(self.vms) < max_vms hands one
\* _do_start_vm call for a new VM to the pool and goes on; and no step hands a
\* start call to the pool while self.candidates is empty.
C39_StartFollowsCandidates ==
    [][/\ (/\ pc = "start" /\ delta_i = 0
           /\ (pc' # pc \/ delta_i' # delta_i)
           /\ candidates # {}
           /\ Cardinality(vms) < max_vms)
          => /\ pc' = "start"
             /\ delta_i' = 1
             /\ vmid' = vmid + 1
             /\ tasks' = tasks (+) SetToBag({<<"start", vmid'>>})
       /\ (\E v \in DOMAIN vm' : CopiesIn(<<"start", v>>, tasks') > CopiesIn(<<"start", v>>, tasks))
          => candidates # {}
       /\ (pc = "start" /\ candidates = {} /\ (pc' # pc \/ delta_i' # delta_i))
          => (pc' = "stop" /\ tasks' = tasks /\ vm' = vm)]_vars

\* in a later cycle the loop has dispatched a start for waiting candidates, and
\* in an earlier cycle it had found no candidate and dispatched none
C39_Witness ==
    /\ pc = "start"
    /\ delta_i = 1
    /\ cycle >= 1
    /\ candidates # {}
    /\ vmid = 1
    /\ BagIn(<<"start", 1>>, tasks)


\* C35: no worker executes _do_stop_vm (lines 386-391) on a VM that is READY
\* when the call is taken from the pool.
C35_StopNeverHitsReadyVm ==
    [][\A v \in DOMAIN vm :
          CopiesIn(<<"stop", v>>, tasks') < CopiesIn(<<"stop", v>>, tasks)
             => vm[v].state # READY]_vars


\* C34: the list get_sched_info has returned at time now (time_last_checked)
\* holds no job that has terminated (submitted_at + duration < now) and holds
\* exactly once each job of the trace that was submitted up to now and has not
\* terminated.
C34_ReplayReturnsTheQueue ==
    (obj.cls = "JobsFromFile" /\ obj.exc = "none" /\ obj.time_last_checked > 0) =>
       LET t == obj.time_last_checked
           listed(j) == {i \in 1..Len(obj.jobs) : obj.jobs[i].jobid = j}
       IN  /\ \A i \in 1..Len(obj.jobs) :
                ~(obj.jobs[i].submitted_at + obj.jobs[i].duration < t)
           /\ \A k \in 1..Len(obj.trace) :
                (/\ obj.trace[k].submitted_at <= t
                 /\ ~(obj.trace[k].submitted_at + obj.trace[k].duration < t))
                => Cardinality(listed(obj.trace[k].jobid)) = 1


====
